---------------------------- MODULE Spec2Model ----------------------------
(***************************************************************************)
(* A model of the switchboard daemon supervisor (switchboardd/src/main.rs) *)
(* and of the switchboard command line client (switchboard-cli/src/main.rs)*)
(*                                                                         *)
(* Three specifications share the variables:                               *)
(*   Spec       the supervisor's main(), over a bounded number of boots;   *)
(*   CliSpec    one invocation of switchboard-cli after another;           *)
(*   AmountSpec the amount parser applied to bounded decimal strings.      *)
(***************************************************************************)
EXTENDS Integers, Sequences, FiniteSets, TLC

VARIABLES
    \* ---- switchboardd: the machine the supervisor runs on
    binExists,        \* datadir/bin exists on disk
    paramsExist,      \* ~/.zcash-params exists on disk
    genesisDone,      \* ethereum_regtest_setup has completed on this datadir
    sidechainsActive, \* activate_sidechains has completed on this datadir
    regtest,          \* config.switchboard.regtest
    \* ---- switchboardd: one run of main()
    boots,            \* number of runs of main() started so far
    binAtStart,       \* whether datadir/bin existed when this run started
    pc,               \* position of main()
    first_launch,     \* the local of that name
    daemons,          \* state of each daemon process
    asked,            \* daemons that have been asked to stop
    server,           \* state of the gateway server
    trace,            \* what this run has done so far, in order
    \* ---- switchboard-cli: one invocation
    cli,              \* the command being run and its outcome
    calls,            \* the RPC requests the invocation has sent, in order
    eth,              \* the ethereum node: its accounts and their balances
    \* ---- amount parsing
    amt               \* a decimal string and what the parser made of it

supVars == <<binExists, paramsExist, genesisDone, sidechainsActive, regtest,
             boots, binAtStart, pc, first_launch, daemons, asked, server, trace>>
cliVars == <<cli, calls, eth>>
vars == <<supVars, cliVars, amt>>

(***************************************************************************)
(* Bounds                                                                  *)
(***************************************************************************)
MaxBoots == 2

(***************************************************************************)
(*                     switchboardd: the supervisor                        *)
(***************************************************************************)
Daemon == {"main", "zcash", "ethereum"}

\* The positions of main() at which the run is still going.
Live == {"load_config", "check_bin", "download", "regtest_setup",
         "set_first_launch", "check_params", "fetch_params", "new_client",
         "spawn", "sleep", "activate", "run_server", "serving", "stop",
         "wait_zcash", "waiting_zcash", "wait_main", "waiting_main",
         "wait_ethereum", "waiting_ethereum"}

\* The ways a run ends: main() returned Ok(()), returned Err, or the process
\* was killed.
Ended == {"done", "error", "crashed"}

RECURSIVE Count(_, _)
Count(s, e) ==
    IF s = <<>> THEN 0
    ELSE (IF Head(s) = e THEN 1 ELSE 0) + Count(Tail(s), e)

\* Position of the first occurrence of e in s, 0 when there is none.
RECURSIVE IndexFrom(_, _, _)
IndexFrom(s, e, i) ==
    IF i > Len(s) THEN 0
    ELSE IF s[i] = e THEN i
    ELSE IndexFrom(s, e, i + 1)

Index(s, e) == IndexFrom(s, e, 1)

\* What every step of main() does: move on and record what was done.  The
\* supervisor never touches the state of the other two specifications.
Step(to, events) ==
    /\ pc' = to
    /\ trace' = trace \o events
    /\ UNCHANGED <<cli, calls, eth, amt>>

Machine == <<binExists, paramsExist, genesisDone, sidechainsActive, regtest>>
Run == <<boots, binAtStart>>
Procs == <<daemons, asked, server>>

SupInit ==
    /\ binExists = FALSE
    /\ paramsExist \in BOOLEAN
    /\ genesisDone = FALSE
    /\ sidechainsActive = FALSE
    /\ regtest \in BOOLEAN
    /\ boots = 1
    /\ binAtStart = FALSE
    /\ pc = "load_config"
    /\ first_launch = FALSE
    /\ daemons = [d \in Daemon |-> "absent"]
    /\ asked = {}
    /\ server = "none"
    /\ trace = <<>>

\* confy::load_path(...)?
LoadConfig ==
    /\ pc = "load_config"
    /\ \/ Step("check_bin", <<>>)
       \/ Step("error", <<"config_err">>)
    /\ UNCHANGED <<Machine, Run, Procs, first_launch>>

\* if !datadir.join("bin").exists()
CheckBin ==
    /\ pc = "check_bin"
    /\ Step(IF ~binExists THEN "download" ELSE "check_params", <<>>)
    /\ UNCHANGED <<Machine, Run, Procs, first_launch>>

\* download_binaries(&datadir, &url).await?
DownloadBinaries ==
    /\ pc = "download"
    /\ \/ /\ binExists' = TRUE
          /\ Step(IF regtest THEN "regtest_setup" ELSE "set_first_launch",
                  <<"download">>)
       \/ /\ UNCHANGED binExists
          /\ Step("error", <<"download", "download_err">>)
    /\ UNCHANGED <<paramsExist, genesisDone, sidechainsActive, regtest, Run,
                   Procs, first_launch>>

\* if config.switchboard.regtest { ethereum_regtest_setup(&datadir).await?; }
RegtestSetup ==
    /\ pc = "regtest_setup"
    /\ \/ /\ genesisDone' = TRUE
          /\ Step("set_first_launch", <<"regtest_setup">>)
       \/ /\ UNCHANGED genesisDone
          /\ Step("error", <<"regtest_setup", "regtest_setup_err">>)
    /\ UNCHANGED <<binExists, paramsExist, sidechainsActive, regtest, Run,
                   Procs, first_launch>>

\* first_launch = true;
SetFirstLaunch ==
    /\ pc = "set_first_launch"
    /\ first_launch' = TRUE
    /\ Step("check_params", <<>>)
    /\ UNCHANGED <<Machine, Run, Procs>>

\* if !home_dir.join(".zcash-params").exists()
CheckParams ==
    /\ pc = "check_params"
    /\ Step(IF ~paramsExist THEN "fetch_params" ELSE "new_client", <<>>)
    /\ UNCHANGED <<Machine, Run, Procs, first_launch>>

\* FetchParams with the error of zcash_fetch_params dropped: the run goes on
\* without the parameters.
FetchParams_ErrorIgnored ==
    /\ pc = "fetch_params"
    /\ \/ /\ paramsExist' = TRUE
          /\ Step("new_client", <<"fetch_params">>)
       \/ /\ UNCHANGED paramsExist
          /\ Step("new_client", <<"fetch_params", "fetch_params_err">>)
    /\ UNCHANGED <<binExists, genesisDone, sidechainsActive, regtest, boots,
                   binAtStart, daemons, asked, server, first_launch>>

\* zcash_fetch_params(&datadir).await?
FetchParams ==
    /\ pc = "fetch_params"
    /\ \/ /\ paramsExist' = TRUE
          /\ Step("new_client", <<"fetch_params">>)
       \/ /\ UNCHANGED paramsExist
          /\ Step("error", <<"fetch_params", "fetch_params_err">>)
    /\ UNCHANGED <<binExists, genesisDone, sidechainsActive, regtest, Run,
                   Procs, first_launch>>

\* SidechainClient::new(&config)?
NewClient ==
    /\ pc = "new_client"
    /\ \/ Step("spawn", <<>>)
       \/ Step("error", <<"client_err">>)
    /\ UNCHANGED <<Machine, Run, Procs, first_launch>>

\* let Daemons { main, zcash, ethereum } = spawn_daemons(...).await?  On
\* failure some of the processes may already have been started.
SpawnDaemons ==
    /\ pc = "spawn"
    /\ \/ /\ daemons' = [d \in Daemon |-> "running"]
          /\ Step("sleep", <<"spawn">>)
       \/ \E started \in (SUBSET Daemon) \ {Daemon} :
             /\ daemons' = [d \in Daemon |->
                              IF d \in started THEN "running" ELSE "absent"]
             /\ Step("error", <<"spawn", "spawn_err">>)
    /\ UNCHANGED <<Machine, Run, asked, server, first_launch>>

\* Sleep without the sleep: main() goes straight on to line 51.
Sleep_Omitted ==
    /\ pc = "sleep"
    /\ Step("activate", <<>>)
    /\ UNCHANGED <<binExists, paramsExist, genesisDone, sidechainsActive,
                   regtest, boots, binAtStart, daemons, asked, server,
                   first_launch>>

\* std::thread::sleep(Duration::from_secs(1))
Sleep ==
    /\ pc = "sleep"
    /\ Step("activate", <<"sleep">>)
    /\ UNCHANGED <<Machine, Run, Procs, first_launch>>

\* NeedActivation with the first-launch test forgotten.
NeedActivation_AnyRegtestBoot == regtest

\* The condition of line 51.
NeedActivation == regtest /\ first_launch

\* if config.switchboard.regtest && first_launch
\*     { client.activate_sidechains().await?; }
ActivateSidechains ==
    /\ pc = "activate"
    /\ IF NeedActivation
       THEN \/ /\ sidechainsActive' = TRUE
               /\ Step("run_server", <<"activate">>)
            \/ /\ UNCHANGED sidechainsActive
               /\ Step("error", <<"activate", "activate_err">>)
       ELSE /\ UNCHANGED sidechainsActive
            /\ Step("run_server", <<>>)
    /\ UNCHANGED <<binExists, paramsExist, genesisDone, regtest, Run, Procs,
                   first_launch>>

\* ServerStart with the handle returned by start() dropped instead of
\* awaited: run_server returns while the server is still listening.
ServerStart_NotAwaited ==
    /\ pc = "run_server"
    /\ \/ /\ server' = "listening"
          /\ Step("stop", <<"server_start">>)
       \/ /\ UNCHANGED server
          /\ Step("error", <<"server_err">>)
    /\ UNCHANGED <<binExists, paramsExist, genesisDone, sidechainsActive,
                   regtest, boots, binAtStart, daemons, asked, first_launch>>

\* run_server: HttpServerBuilder::default().build(..).await?,
\* server.local_addr()?, server.start(..)?  The server then listens until
\* it is stopped; run_server awaits the handle that start returned.
ServerStart ==
    /\ pc = "run_server"
    /\ \/ /\ server' = "listening"
          /\ Step("serving", <<"server_start">>)
       \/ /\ UNCHANGED server
          /\ Step("error", <<"server_err">>)
    /\ UNCHANGED <<Machine, Run, daemons, asked, first_launch>>

\* The awaited server handle resolves: the server has stopped, run_server
\* returns Ok(addr).
ServerStopped ==
    /\ pc = "serving"
    /\ server' = "stopped"
    /\ Step("stop", <<"server_stopped">>)
    /\ UNCHANGED <<Machine, Run, daemons, asked, first_launch>>

\* WaitOrder with main waited for first.
WaitOrder_MainFirst == <<"main", "zcash", "ethereum">>

\* The order of lines 56-58.
WaitOrder == <<"zcash", "main", "ethereum">>

\* client.stop().await?  stop() asks main and zcash to stop.
ClientStop ==
    /\ pc = "stop"
    /\ \/ /\ asked' = asked \cup {"main", "zcash"}
          /\ Step("wait_" \o WaitOrder[1], <<"stop_call", "stop_ret">>)
       \/ \E reached \in SUBSET {"main", "zcash"} :
             /\ asked' = asked \cup reached
             /\ Step("error", <<"stop_call", "stop_err">>)
    /\ UNCHANGED <<Machine, Run, daemons, server, first_launch>>

AfterWait(i) ==
    IF i < Len(WaitOrder) THEN "wait_" \o WaitOrder[i + 1] ELSE "done"

\* <daemon>.wait() is called.
WaitBegin(i) ==
    /\ pc = "wait_" \o WaitOrder[i]
    /\ Step("waiting_" \o WaitOrder[i], <<"wait_begin_" \o WaitOrder[i]>>)
    /\ UNCHANGED <<Machine, Run, Procs, first_launch>>

\* <daemon>.wait().await returns Ok once the process has exited.
WaitOk(i) ==
    /\ pc = "waiting_" \o WaitOrder[i]
    /\ daemons[WaitOrder[i]] = "exited"
    /\ Step(AfterWait(i), <<"wait_ok_" \o WaitOrder[i]>>)
    /\ UNCHANGED <<Machine, Run, Procs, first_launch>>

\* WaitErr with the result of wait() discarded instead of propagated.
WaitErr_Ignored(i) ==
    /\ pc = "waiting_" \o WaitOrder[i]
    /\ Step(AfterWait(i), <<"wait_err_" \o WaitOrder[i]>>)
    /\ UNCHANGED <<binExists, paramsExist, genesisDone, sidechainsActive,
                   regtest, boots, binAtStart, daemons, asked, server,
                   first_launch>>

\* <daemon>.wait().await? returns Err: main() returns it.
WaitErr(i) ==
    /\ pc = "waiting_" \o WaitOrder[i]
    /\ Step("error", <<"wait_err_" \o WaitOrder[i]>>)
    /\ UNCHANGED <<Machine, Run, Procs, first_launch>>

Wait == \E i \in 1..Len(WaitOrder) : WaitBegin(i) \/ WaitOk(i) \/ WaitErr(i)

\* A daemon process exits: because it was asked to, or on its own.
DaemonExit ==
    /\ \E d \in Daemon :
          /\ daemons[d] = "running"
          /\ daemons' = [daemons EXCEPT ![d] = "exited"]
    /\ UNCHANGED <<Machine, Run, pc, trace, asked, server, first_launch>>
    /\ UNCHANGED <<cli, calls, eth, amt>>

\* The supervisor process is killed at any point of its run.
Crash ==
    /\ pc \in Live
    /\ pc' = "crashed"
    /\ UNCHANGED <<Machine, Run, Procs, first_launch, trace>>
    /\ UNCHANGED <<cli, calls, eth, amt>>

\* switchboardd is started again on the same machine.
Reboot ==
    /\ pc \in Ended
    /\ boots < MaxBoots
    /\ boots' = boots + 1
    /\ binAtStart' = binExists
    /\ pc' = "load_config"
    /\ first_launch' = FALSE
    /\ daemons' = [d \in Daemon |-> "absent"]
    /\ asked' = {}
    /\ server' = "none"
    /\ trace' = <<>>
    /\ UNCHANGED Machine
    /\ UNCHANGED <<cli, calls, eth, amt>>

Next ==
    \/ LoadConfig
    \/ CheckBin
    \/ DownloadBinaries
    \/ RegtestSetup
    \/ SetFirstLaunch
    \/ CheckParams
    \/ FetchParams
    \/ NewClient
    \/ SpawnDaemons
    \/ Sleep
    \/ ActivateSidechains
    \/ ServerStart
    \/ ServerStopped
    \/ ClientStop
    \/ Wait
    \/ DaemonExit
    \/ Crash
    \/ Reboot

CliIdle ==
    /\ cli = [state |-> "idle"]
    /\ calls = <<>>
    /\ eth = <<>>

AmtIdle == amt = [state |-> "idle"]

Init == SupInit /\ CliIdle /\ AmtIdle

Spec == Init /\ [][Next]_vars

(***************************************************************************)
(* The supervisor with daemons that keep to their shutdown contract: a     *)
(* daemon exits only once it has been asked to stop, and does exit then.   *)
(* main() is one thread of control and takes its next step whenever it     *)
(* can; nothing obliges the server to stop, a wait to fail or the process  *)
(* to be killed.                                                           *)
(***************************************************************************)
\* A daemon that has been asked to stop exits.
DaemonStops ==
    /\ \E d \in Daemon :
          /\ d \in asked
          /\ daemons[d] = "running"
          /\ daemons' = [daemons EXCEPT ![d] = "exited"]
    /\ UNCHANGED <<Machine, Run, pc, trace, asked, server, first_launch>>
    /\ UNCHANGED <<cli, calls, eth, amt>>

\* The steps main() takes by itself.
SupStep ==
    \/ LoadConfig \/ CheckBin \/ DownloadBinaries \/ RegtestSetup
    \/ SetFirstLaunch \/ CheckParams \/ FetchParams \/ NewClient
    \/ SpawnDaemons \/ Sleep \/ ActivateSidechains \/ ServerStart
    \/ ClientStop
    \/ \E i \in 1..Len(WaitOrder) : WaitBegin(i) \/ WaitOk(i)

LiveNext ==
    \/ LoadConfig
    \/ CheckBin
    \/ DownloadBinaries
    \/ RegtestSetup
    \/ SetFirstLaunch
    \/ CheckParams
    \/ FetchParams
    \/ NewClient
    \/ SpawnDaemons
    \/ Sleep
    \/ ActivateSidechains
    \/ ServerStart
    \/ ServerStopped
    \/ ClientStop
    \/ Wait
    \/ DaemonStops
    \/ Crash
    \/ Reboot

LiveSpec ==
    /\ Init
    /\ [][LiveNext]_vars
    /\ WF_vars(SupStep)
    /\ WF_vars(DaemonStops)

(***************************************************************************)
(*                  Properties of the supervisor (Spec)                    *)
(***************************************************************************)
Downloads == Count(trace, "download")
Spawns == Count(trace, "spawn")
Spawned == Cardinality({d \in Daemon : daemons[d] # "absent"})
Activations == Count(trace, "activate")
StopCalls == Count(trace, "stop_call")

Occurs(e) == Index(trace, e) # 0
Before(e, f) == Occurs(e) /\ Index(trace, e) < Index(trace, f)

ErrorEvents == {"config_err", "download_err", "regtest_setup_err",
                "fetch_params_err", "client_err", "spawn_err", "activate_err",
                "server_err", "stop_err", "wait_err_zcash", "wait_err_main",
                "wait_err_ethereum"}

\* This run got past line 53: it started, or tried to start, the server.
PastActivation ==
    pc = "run_server" \/ Occurs("server_start") \/ Occurs("server_err")

\* C1: in a boot, download_binaries is invoked once when datadir/bin was
\* absent at the start and never when it was present; a boot that gets as far
\* as the gateway server has spawned exactly three daemon processes in one
\* spawn_daemons call; activate_sidechains is called once when regtest is set
\* and the binaries were provisioned in this boot, and never otherwise.
C1_BootCounts ==
    /\ Downloads <= 1 /\ Spawns <= 1 /\ Activations <= 1
    /\ binAtStart => Downloads = 0 /\ Activations = 0
    /\ ~regtest => Activations = 0
    /\ Activations = 1 => Downloads = 1
    /\ PastActivation =>
          /\ Downloads = (IF binAtStart THEN 0 ELSE 1)
          /\ Spawns = 1 /\ Spawned = 3
          /\ Activations = (IF regtest /\ ~binAtStart THEN 1 ELSE 0)

\* A second regtest boot, binaries present, reaches the server having
\* skipped provisioning and activation.
C1_Witness ==
    /\ boots = 2 /\ regtest /\ binAtStart /\ pc = "serving"
    /\ Downloads = 0 /\ Activations = 0 /\ Spawned = 3

\* C2: stop() is invoked at most once per run and only after the gateway
\* server has stopped (run_server returned); no daemon wait begins before
\* stop() has returned.
C2_ShutdownOrder ==
    /\ StopCalls <= 1
    /\ Occurs("stop_call") =>
          server = "stopped" /\ Before("server_stopped", "stop_call")
    /\ \A d \in Daemon :
          Occurs("wait_begin_" \o d) => Before("stop_ret", "wait_begin_" \o d)

\* The last of the three waits has begun.
C2_Witness ==
    /\ pc = "waiting_ethereum"
    /\ Before("server_stopped", "stop_call")
    /\ Before("stop_ret", "wait_begin_zcash")

\* C3: every regtest boot that reaches the gateway server runs on a datadir
\* on which the regtest genesis setup and the sidechain activation have
\* completed, in this boot or an earlier one.
C3_RestartSafe ==
    (regtest /\ pc = "serving") => (genesisDone /\ sidechainsActive)

\* C4: main() returns Ok only after the server stopped, stop() succeeded and
\* the three waits returned Ok; any failed step ends the run with an error.
C4_ExitSuccess ==
    /\ pc = "done" =>
          /\ server = "stopped"
          /\ Occurs("stop_ret")
          /\ \A d \in Daemon : Occurs("wait_ok_" \o d)
    /\ \A e \in ErrorEvents : Occurs(e) => pc = "error"

\* A run that ended with Ok(()).
C4_Witness ==
    /\ pc = "done"
    /\ \A d \in Daemon : daemons[d] = "exited" /\ Occurs("wait_ok_" \o d)

Provisioning == {"download", "regtest_setup", "fetch_params"}

\* The positions of main() before spawn_daemons has returned.
BeforeSpawned == {"load_config", "check_bin", "download", "regtest_setup",
                  "set_first_launch", "check_params", "fetch_params",
                  "new_client", "spawn"}

\* What main() does with the daemons over RPC, or lets others do.
RpcTraffic == {"activate", "server_start", "stop_call"}

\* C11: within a boot every provisioning step that runs is over before
\* spawn_daemons; no daemon process exists before spawn_daemons has run; the
\* three daemons are spawned before the sleep; and the sleep is over before
\* activate_sidechains, before the gateway server starts and before stop().
C11_StartupOrder ==
    /\ \A e \in Provisioning :
          /\ pc = e => ~Occurs("spawn") /\ Spawned = 0
          /\ (Occurs(e) /\ Occurs("spawn")) => Before(e, "spawn")
    /\ Spawned > 0 => Occurs("spawn")
    /\ (pc \in BeforeSpawned \ {"spawn"}) => Spawned = 0
    /\ Occurs("sleep") => Before("spawn", "sleep") /\ Spawned = 3
    /\ \A e \in RpcTraffic \cup {"activate_err", "server_err"} :
          Occurs(e) => Before("sleep", e)
    /\ (pc \in {"run_server", "serving", "stop"} \/ server # "none") =>
          Occurs("sleep")

\* A first regtest boot that ran all three provisioning steps and the
\* activation is serving.
C11_Witness ==
    /\ pc = "serving" /\ regtest /\ first_launch
    /\ \A e \in Provisioning : Before(e, "spawn")
    /\ Before("spawn", "sleep")
    /\ Before("sleep", "activate") /\ Before("activate", "server_start")

\* C12: once the gateway server has stopped the run comes to an end, the
\* daemons keeping to their shutdown contract.  (The claim asks for more:
\* that it ends with the three waits returned.)
C12_ShutdownCompletes == (server = "stopped") ~> (pc \in Ended)

\* C13: a run in which spawn_daemons succeeded and which has ended by
\* returning from main() has waited on each of the three daemons.
C13_Reaped ==
    (pc \in {"done", "error"} /\ Occurs("spawn") /\ ~Occurs("spawn_err")) =>
       \A d \in Daemon : Occurs("wait_begin_" \o d)

\* The daemon waited on before d, "none" for the first.
WaitedBefore(d) ==
    CASE d = "zcash" -> "none"
      [] d = "main" -> "zcash"
      [] d = "ethereum" -> "main"

\* C14: the wait on main begins only after the wait on zcash returned Ok, the
\* wait on ethereum only after the wait on main returned Ok; a wait that
\* returned Err ends the run with an error and no further wait begins.
C14_WaitOrder ==
    \A d \in Daemon :
       /\ Count(trace, "wait_begin_" \o d) <= 1
       /\ (Occurs("wait_begin_" \o d) /\ WaitedBefore(d) # "none") =>
             Before("wait_ok_" \o WaitedBefore(d), "wait_begin_" \o d)
       /\ Occurs("wait_err_" \o d) =>
             /\ pc = "error"
             /\ trace[Len(trace)] = "wait_err_" \o d
             /\ ~Occurs("wait_ok_" \o d)
             /\ \A e \in Daemon :
                   WaitedBefore(e) = d => ~Occurs("wait_begin_" \o e)

\* The wait on main failed after the wait on zcash returned: ethereum is not
\* waited for.
C14_Witness ==
    /\ pc = "error"
    /\ Before("wait_ok_zcash", "wait_begin_main")
    /\ Occurs("wait_err_main")
    /\ ~Occurs("wait_begin_ethereum")

ProvisioningErrors == {"download_err", "regtest_setup_err", "fetch_params_err"}

\* C15: a boot in which download_binaries, ethereum_regtest_setup or
\* zcash_fetch_params failed has ended with an error, having spawned no
\* daemon, sent no RPC request and started no gateway server.
C15_ProvisioningFatal ==
    \A e \in ProvisioningErrors :
       Occurs(e) =>
          /\ pc = "error"
          /\ trace[Len(trace)] = e
          /\ Spawned = 0 /\ ~Occurs("spawn")
          /\ server = "none"
          /\ asked = {}
          /\ \A r \in RpcTraffic : ~Occurs(r)

\* The download went through and the parameter fetch failed.
C15_Witness ==
    /\ pc = "error"
    /\ Before("download", "fetch_params_err")
    /\ binExists /\ ~paramsExist /\ Spawned = 0

(***************************************************************************)
(*                    Natural numbers of any size                          *)
(*                                                                         *)
(* Amounts are u64 counts of satoshi and ethereum balances are U256 counts *)
(* of wei.  Both are written here as their decimal digits, most            *)
(* significant first and without leading zeros (zero is <<0>>).            *)
(***************************************************************************)
Norm(d) ==
    IF \A i \in 1..Len(d) : d[i] = 0 THEN <<0>>
    ELSE SubSeq(d, CHOOSE i \in 1..Len(d) :
                      d[i] # 0 /\ \A j \in 1..(i - 1) : d[j] = 0,
                Len(d))

\* a < b, digit by digit, for two numbers of the same length.
LexLess(a, b) ==
    \E i \in 1..Len(a) :
       a[i] < b[i] /\ \A j \in 1..(i - 1) : a[j] = b[j]

Less(a, b) ==
    IF Len(a) # Len(b) THEN Len(a) < Len(b) ELSE LexLess(a, b)

Leq(a, b) == a = b \/ Less(a, b)

Zeros(n) == [i \in 1..n |-> 0]

\* The carry into position i of the sum of two numbers of the same length:
\* some position to the right produces a carry and every position between
\* passes it on.
CarryInto(a, b, i) ==
    IF \E j \in (i + 1)..Len(a) :
          /\ a[j] + b[j] >= 10
          /\ \A k \in (i + 1)..(j - 1) : a[k] + b[k] = 9
    THEN 1 ELSE 0

\* The sum of two numbers of the same length, one digit longer than they.
AddAligned(a, b) ==
    <<CarryInto(a, b, 0)>>
       \o [i \in 1..Len(a) |-> (a[i] + b[i] + CarryInto(a, b, i)) % 10]

Add(a, b) ==
    LET n == IF Len(a) > Len(b) THEN Len(a) ELSE Len(b)
    IN Norm(AddAligned(Zeros(n - Len(a)) \o a, Zeros(n - Len(b)) \o b))

\* floor(a / 10^k)
DivPow10(a, k) == IF Len(a) <= k THEN <<0>> ELSE SubSeq(a, 1, Len(a) - k)

U64Max == <<1, 8, 4, 4, 6, 7, 4, 4, 0, 7, 3, 7, 0, 9, 5, 5, 1, 6, 1, 5>>
I64Max == <<9, 2, 2, 3, 3, 7, 2, 0, 3, 6, 8, 5, 4, 7, 7, 5, 8, 0, 7>>

(***************************************************************************)
(*                              Amounts                                    *)
(***************************************************************************)
\* Denomination::Bitcoin: one bitcoin is 10^8 satoshi.
BtcPrecision == 8

DigitChar == <<"1", "2", "3", "4", "5", "6", "7", "8", "9">>

IsDigit(c) == c = "0" \/ \E i \in 1..9 : DigitChar[i] = c

DigitVal(c) == IF c = "0" THEN 0 ELSE CHOOSE i \in 1..9 : DigitChar[i] = c

CharOf(d) == IF d = 0 THEN "0" ELSE DigitChar[d]

Ok(sat) == [ok |-> TRUE, sat |-> sat, err |-> "none"]
Err(e) == [ok |-> FALSE, sat |-> <<0>>, err |-> e]

\* 10_u64.checked_mul(value) and then checked_add(digit)
CheckedMulTenAdd(value, digit) ==
    LET v == Norm(value \o <<digit>>)
    IN IF Leq(v, U64Max) THEN Ok(v) ELSE Err("TooBig")

\* The decimal shift left by scale digits, one checked_mul at a time.
RECURSIVE ShiftLeft(_, _)
ShiftLeft(value, scale) ==
    IF scale = 0 THEN Ok(value)
    ELSE LET r == CheckedMulTenAdd(value, 0)
         IN IF r.ok THEN ShiftLeft(r.sat, scale - 1) ELSE r

\* The character loop of the parser: value is the number read so far,
\* decimals the count of digits after the point (-1 before any point) and
\* maxDec the number of decimals of the denomination.
RECURSIVE ParseChars(_, _, _, _, _)
ParseChars(s, i, value, decimals, maxDec) ==
    IF i > Len(s)
    THEN ShiftLeft(value, maxDec - (IF decimals < 0 THEN 0 ELSE decimals))
    ELSE IF IsDigit(s[i])
    THEN LET r == CheckedMulTenAdd(value, DigitVal(s[i]))
         IN IF ~r.ok THEN r
            ELSE IF decimals < 0
            THEN ParseChars(s, i + 1, r.sat, decimals, maxDec)
            ELSE IF decimals < maxDec
            THEN ParseChars(s, i + 1, r.sat, decimals + 1, maxDec)
            ELSE Err("TooPrecise")
    ELSE IF s[i] = "."
    THEN IF decimals < 0 THEN ParseChars(s, i + 1, value, 0, maxDec)
         ELSE Err("InvalidFormat")
    ELSE Err("InvalidCharacter")

\* Amount::from_str_in(s, denomination) for a denomination of maxDec
\* decimals.  An empty string and a lone sign are malformed, a signed number
\* is negative, and a count of satoshi above i64::MAX is too big.
FromStrIn(s, maxDec) ==
    IF s = <<>> THEN Err("InvalidFormat")
    ELSE IF Head(s) = "-"
    THEN IF Len(s) = 1 THEN Err("InvalidFormat")
         ELSE LET r == ParseChars(Tail(s), 1, <<0>>, -1, maxDec)
              IN IF r.ok THEN Err("Negative") ELSE r
    ELSE LET r == ParseChars(s, 1, <<0>>, -1, maxDec)
         IN IF r.ok /\ Less(I64Max, r.sat) THEN Err("TooBig") ELSE r

\* ParseAmount with the wrong denomination, Denomination::Satoshi.
ParseAmount_AsSatoshi(s) == FromStrIn(s, 0)

\* btc_amount_parser: bitcoin::Amount::from_str_in(s, Denomination::Bitcoin)
ParseAmount(s) == FromStrIn(s, BtcPrecision)

\* Amount::from_sat and Amount::to_sat
FromSat(n) == [sat |-> n]
ToSat(a) == a.sat

StripTrailingZeros(d) ==
    IF \A i \in 1..Len(d) : d[i] = 0 THEN <<>>
    ELSE SubSeq(d, 1, CHOOSE i \in 1..Len(d) :
                         d[i] # 0 /\ \A j \in (i + 1)..Len(d) : d[j] = 0)

\* AmountBtc's form on the wire: the amount in bitcoin as a decimal, with as
\* many digits after the point as the value needs and none when it is whole.
ToNative(a) ==
    LET d == ToSat(a)
        p == IF Len(d) > BtcPrecision THEN d
             ELSE Zeros(BtcPrecision + 1 - Len(d)) \o d
        whole == SubSeq(p, 1, Len(p) - BtcPrecision)
        frac == StripTrailingZeros(SubSeq(p, Len(p) - BtcPrecision + 1, Len(p)))
        text(x) == [i \in 1..Len(x) |-> CharOf(x[i])]
    IN text(whole) \o (IF frac = <<>> THEN <<>> ELSE <<".">> \o text(frac))

MaxStrLen == 4

Alphabet == {"0", "1", "5", ".", "-", "x"}

\* Strings at the edges of the parser's range: i64::MAX satoshi, one more,
\* u64::MAX + 1 satoshi, one satoshi, a tenth of a satoshi.
EdgeStrings == {
    <<"9", "2", "2", "3", "3", "7", "2", "0", "3", "6", "8", ".", "5", "4", "7", "7", "5", "8", "0", "7">>,
    <<"9", "2", "2", "3", "3", "7", "2", "0", "3", "6", "8", ".", "5", "4", "7", "7", "5", "8", "0", "8">>,
    <<"1", "8", "4", "4", "6", "7", "4", "4", "0", "7", "3", "7", ".", "0", "9", "5", "5", "1", "6", "1", "6">>,
    <<"0", ".", "0", "0", "0", "0", "0", "0", "0", "1">>,
    <<"0", ".", "0", "0", "0", "0", "0", "0", "0", "0", "1">>}

AmountStrings ==
    UNION {[1..n -> Alphabet] : n \in 0..MaxStrLen} \cup EdgeStrings

AmtStep == UNCHANGED <<supVars, cliVars>>

\* clap hands the argument to btc_amount_parser.
ParseArg ==
    /\ amt.state = "idle"
    /\ \E s \in AmountStrings :
          amt' = [state |-> "parsed", s |-> s, parsed |-> ParseAmount(s),
                  native |-> <<>>, back |-> Err("none")]
    /\ AmtStep

\* The parsed amount is sent to a chain as AmountBtc.
Serialize ==
    /\ amt.state = "parsed"
    /\ amt.parsed.ok
    /\ amt' = [amt EXCEPT !.state = "sent",
                          !.native = ToNative(FromSat(amt.parsed.sat))]
    /\ AmtStep

\* The decimal on the wire is read back as an amount.
ReadBack ==
    /\ amt.state = "sent"
    /\ amt' = [amt EXCEPT !.state = "read", !.back = ParseAmount(amt.native)]
    /\ AmtStep

NextArg ==
    /\ amt.state \in {"parsed", "read"}
    /\ amt' = [state |-> "idle"]
    /\ AmtStep

AmountInit ==
    /\ SupInit /\ regtest /\ paramsExist
    /\ CliIdle
    /\ AmtIdle

AmountNext ==
    \/ ParseArg
    \/ Serialize
    \/ ReadBack
    \/ NextArg

AmountSpec == AmountInit /\ [][AmountNext]_vars

(***************************************************************************)
(*                 Properties of amounts (AmountSpec)                      *)
(***************************************************************************)
\* A decimal in the form in which amounts are written out: digits, no sign,
\* no leading zero before a further digit, and after a point at least one
\* digit, the last of them not zero.
IsCanonical(s) ==
    LET dot == Index(s, ".")
        whole == IF dot = 0 THEN s ELSE SubSeq(s, 1, dot - 1)
        frac == IF dot = 0 THEN <<>> ELSE SubSeq(s, dot + 1, Len(s))
    IN /\ whole # <<>>
       /\ \A i \in 1..Len(whole) : IsDigit(whole[i])
       /\ \A i \in 1..Len(frac) : IsDigit(frac[i])
       /\ Len(whole) > 1 => whole[1] # "0"
       /\ dot # 0 => frac # <<>> /\ frac[Len(frac)] # "0"

\* A decimal numeral: digits, optionally followed by a point and digits.
IsDecimal(s) ==
    LET dot == Index(s, ".")
        whole == IF dot = 0 THEN s ELSE SubSeq(s, 1, dot - 1)
        frac == IF dot = 0 THEN <<>> ELSE SubSeq(s, dot + 1, Len(s))
    IN /\ whole # <<>>
       /\ \A i \in 1..Len(whole) : IsDigit(whole[i])
       /\ \A i \in 1..Len(frac) : IsDigit(frac[i])
       /\ dot # 0 => frac # <<>>

MaxAccounts == 2
MaxParams == 2

Sidechain == {"zcash", "ethereum"}

\* Sidechain::number
SidechainNumber_AlwaysZero(sidechain) == 0

SidechainNumber(sidechain) == IF sidechain = "zcash" THEN 0 ELSE 1

\* Option<T>
None == [some |-> FALSE]
Some(x) == [some |-> TRUE, v |-> x]
UnwrapOr(o, d) == IF o.some THEN o.v ELSE d

\* DefaultFee of one satoshi.
DefaultFee_OneSat == FromSat(<<1>>)

\* bitcoin::Amount::from_btc(0.0001)?: the float is written out as a decimal
\* and parsed as one.
DefaultFee ==
    FromSat(ParseAmount(<<"0", ".", "0", "0", "0", "1">>).sat)

\* JSON values, as json!(...) builds them.
JNum(n) == [t |-> "number", v |-> n]
JStr(str) == [t |-> "string", v |-> str]
JArr(a) == [t |-> "array", v |-> a]
\* json!(AmountBtc(amount))
JAmountBtc(a) == [t |-> "amount_btc", v |-> ToNative(a)]
\* json!(U256)
JU256(n) == [t |-> "u256", v |-> n]
\* format!("0x{}", account.encode_hex::<String>()), account being the i-th
\* account of the node
HexAddress(i) == <<"0x", i>>
\* the address string a zcash node hands out
ZcashAddress == <<"z", 0>>
JAddress(a) == [t |-> "address", v |-> a]

\* format_deposit_address(number, address): the address with the slot
\* index of the sidechain in it.
FormatDepositAddress(number, address) ==
    [slot |-> number, address |-> address]

JDepositAddress(d) == [t |-> "deposit_address", v |-> d]

Call(chain, method, params) ==
    [chain |-> chain, method |-> method, params |-> params]

\* What a handler does when every RPC answers: the requests it sends, how it
\* exits and what it prints.
Plan(requests, exit, out) == [calls |-> requests, exit |-> exit, out |-> out]

\* ---- the ethereum node
WeiPerSatDigits == 10

U256Max == <<1, 1, 5, 7, 9, 2, 0, 8, 9, 2, 3, 7, 3, 1, 6, 1, 9, 5, 4, 2, 3, 5, 7, 0, 9, 8, 5, 0, 0, 8, 6, 8, 7, 9, 0, 7, 8, 5, 3, 2, 6, 9, 9, 8, 4, 6, 6, 5, 6, 4, 0, 5, 6, 4, 0, 3, 9, 4, 5, 7, 5, 8, 4, 0, 0, 7, 9, 1, 3, 1, 2, 9, 6, 3, 9, 9, 3, 5>>

\* Balances in wei: nothing, 0.6 satoshi, 30,000 and 70,000 satoshi's worth,
\* u64::MAX satoshi's worth, and 2^255.
Balances == {
    <<0>>,
    <<6, 0, 0, 0, 0, 0, 0, 0, 0, 0>>,
    <<3, 0, 0, 0, 0, 0, 0, 0, 0, 0, 0, 0, 0>>,
    <<7, 0, 0, 0, 0, 0, 0, 0, 0, 0, 0, 0, 0>>,
    <<1, 8, 4, 4, 6, 7, 4, 4, 0, 7, 3, 7, 0, 9, 5, 5, 1, 6, 1, 5, 0, 0, 0, 0, 0, 0, 0, 0, 0, 0>>,
    <<5, 7, 8, 9, 6, 0, 4, 4, 6, 1, 8, 6, 5, 8, 0, 9, 7, 7, 1, 1, 7, 8, 5, 4, 9, 2, 5, 0, 4, 3, 4, 3, 9, 5, 3, 9, 2, 6, 6, 3, 4, 9, 9, 2, 3, 3, 2, 8, 2, 0, 2, 8, 2, 0, 1, 9, 7, 2, 8, 7, 9, 2, 0, 0, 3, 9, 5, 6, 5, 6, 4, 8, 1, 9, 9, 6, 8>>}

EthStates == UNION {[1..n -> Balances] : n \in 0..MaxAccounts}

\* ---- the arguments clap hands to the handlers
Amounts == {FromSat(<<1>>), FromSat(<<1, 0, 0, 0, 0>>),
            FromSat(<<1, 5, 0, 0, 0, 0, 0, 0, 0>>)}
OptAmounts == {None} \cup {Some(a) : a \in Amounts}
BlockNumbers == {1, 2}
Methods == {"getblockcount", "getblockhash"}
RawStrings == {"1", "true", "null", "abc"}
OptParams ==
    {None} \cup {Some(ps) : ps \in UNION {[1..n -> RawStrings] : n \in 1..MaxParams}}
\* What getbalance may answer on main and zcash.
ChainBalances == {FromSat(<<0>>), FromSat(<<1, 5, 0, 0, 0, 0, 0, 0, 0>>)}

\* ---- Commands::Generate
GeneratePlan(number, amount) ==
    Plan(<<Call("zcash", "generate",
                <<JNum(number), JAmountBtc(UnwrapOr(amount, DefaultFee))>>)>>,
         "ok", [msg |-> "hashes"])

\* ---- Commands::Zcash, Commands::Main
\* params.iter().map(|param| json!(param)).collect(): params is an
\* Option<Vec<String>>, whose iterator yields the whole vector once, or
\* nothing.
RawParams(params) ==
    IF params.some
    THEN <<JArr([i \in 1..Len(params.v) |-> JStr(params.v[i])])>>
    ELSE <<>>

RawPlan(chain, method, params) ==
    Plan(<<Call(chain, method, RawParams(params))>>, "ok", [msg |-> "result"])

\* ---- Commands::Getbalances
RECURSIVE SumTo(_, _)
SumTo(bals, i) == IF i = 0 THEN <<0>> ELSE Add(SumTo(bals, i - 1), bals[i])

\* The first account at which balance += ... overflows a U256, 0 if none.
RECURSIVE OverflowFrom(_, _)
OverflowFrom(bals, i) ==
    IF i > Len(bals) THEN 0
    ELSE IF Less(U256Max, SumTo(bals, i)) THEN i
    ELSE OverflowFrom(bals, i + 1)

\* (balance / SATOSHI) with balance the sum of the balances, divided account
\* by account instead of once.
EthereumSat_PerAccount(bals) ==
    SumTo([i \in 1..Len(bals) |-> DivPow10(bals[i], WeiPerSatDigits)], Len(bals))

\* (balance / SATOSHI) with balance the sum of the balances
EthereumSat(bals) == DivPow10(SumTo(bals, Len(bals)), WeiPerSatDigits)

\* BalanceCalls asking for the balance of the first account only.
BalanceCalls_FirstOnly(n) ==
    <<Call("main", "getbalance", <<>>), Call("zcash", "getbalance", <<>>),
      Call("ethereum", "eth_accounts", <<>>)>>
       \o [i \in 1..(IF n > 1 THEN 1 ELSE n) |->
             Call("ethereum", "eth_getBalance", <<JAddress(HexAddress(i))>>)]

\* The requests of getbalances that get as far as the n-th account.
BalanceCalls(n) ==
    <<Call("main", "getbalance", <<>>), Call("zcash", "getbalance", <<>>),
      Call("ethereum", "eth_accounts", <<>>)>>
       \o [i \in 1..n |-> Call("ethereum", "eth_getBalance", <<JAddress(HexAddress(i))>>)]

GetbalancesPlan(main, zcash) ==
    LET over == OverflowFrom(eth, 1)
        sat == EthereumSat(eth)
    IN IF over # 0
       THEN Plan(BalanceCalls(over), "panic", [msg |-> "arithmetic operation overflow"])
       ELSE IF Less(U64Max, sat)
       THEN Plan(BalanceCalls(Len(eth)), "panic", [msg |-> "Integer overflow when casting to u64"])
       ELSE Plan(BalanceCalls(Len(eth)), "ok",
                 [msg |-> "balances", main |-> main, zcash |-> zcash,
                  ethereum |-> FromSat(sat)])

\* ---- Commands::Getblockcounts
GetblockcountsPlan ==
    Plan(<<Call("main", "getblockcount", <<>>), Call("zcash", "getblockcount", <<>>),
           Call("ethereum", "eth_blockNumber", <<>>)>>,
         "ok", [msg |-> "blockcounts"])

\* ---- Commands::Deposit
\* DepositPlan taking the last account of the node, not the first.
DepositPlan_LastAccount(sidechain, amount, fee) ==
    LET f == UnwrapOr(fee, DefaultFee)
        deposit(address) ==
            Call("main", "createsidechaindeposit",
                 <<JNum(SidechainNumber(sidechain)),
                   JDepositAddress(FormatDepositAddress(SidechainNumber(sidechain), address)),
                   JAmountBtc(amount), JAmountBtc(f)>>)
    IN IF sidechain = "zcash"
       THEN Plan(<<Call("zcash", "getnewaddress", <<>>), deposit(ZcashAddress)>>,
                 "ok", [msg |-> "created deposit", amount |-> amount, fee |-> f])
       ELSE IF eth = <<>>
       THEN Plan(<<Call("ethereum", "eth_accounts", <<>>)>>,
                 "err", [msg |-> "No available Ethereum addresses"])
       ELSE Plan(<<Call("ethereum", "eth_accounts", <<>>),
                   deposit(HexAddress(Len(eth)))>>,
                 "ok", [msg |-> "created deposit", amount |-> amount, fee |-> f])

DepositPlan(sidechain, amount, fee) ==
    LET f == UnwrapOr(fee, DefaultFee)
        deposit(address) ==
            Call("main", "createsidechaindeposit",
                 <<JNum(SidechainNumber(sidechain)),
                   JDepositAddress(FormatDepositAddress(SidechainNumber(sidechain), address)),
                   JAmountBtc(amount), JAmountBtc(f)>>)
    IN IF sidechain = "zcash"
       THEN Plan(<<Call("zcash", "getnewaddress", <<>>), deposit(ZcashAddress)>>,
                 "ok", [msg |-> "created deposit", amount |-> amount, fee |-> f])
       ELSE IF eth = <<>>
       THEN Plan(<<Call("ethereum", "eth_accounts", <<>>)>>,
                 "err", [msg |-> "No available Ethereum addresses"])
       ELSE Plan(<<Call("ethereum", "eth_accounts", <<>>), deposit(HexAddress(1))>>,
                 "ok", [msg |-> "created deposit", amount |-> amount, fee |-> f])

\* ---- Commands::Withdraw
\* WithdrawPlan sending the total of amount and fee as the amount.
WithdrawPlan_FeeFolded(sidechain, amount, fee) ==
    LET f == UnwrapOr(fee, DefaultFee)
        total == FromSat(Add(ToSat(amount), ToSat(f)))
    IN IF sidechain = "zcash"
       THEN Plan(<<Call("zcash", "withdraw", <<JAmountBtc(total), JAmountBtc(f)>>)>>,
                 "ok", [msg |-> "created withdrawal", amount |-> amount, fee |-> f])
       ELSE IF eth = <<>>
       THEN Plan(<<Call("ethereum", "eth_accounts", <<>>)>>,
                 "err", [msg |-> "No available Ethereum addresses"])
       ELSE Plan(<<Call("ethereum", "eth_accounts", <<>>),
                   Call("ethereum", "eth_withdraw",
                        <<JAddress(HexAddress(1)), JU256(ToSat(total)),
                          JU256(ToSat(f))>>)>>,
                 "ok", [msg |-> "created withdrawal", amount |-> amount, fee |-> f])

WithdrawPlan(sidechain, amount, fee) ==
    LET f == UnwrapOr(fee, DefaultFee)
    IN IF sidechain = "zcash"
       THEN Plan(<<Call("zcash", "withdraw", <<JAmountBtc(amount), JAmountBtc(f)>>)>>,
                 "ok", [msg |-> "created withdrawal", amount |-> amount, fee |-> f])
       ELSE IF eth = <<>>
       THEN Plan(<<Call("ethereum", "eth_accounts", <<>>)>>,
                 "err", [msg |-> "No available Ethereum addresses"])
       ELSE Plan(<<Call("ethereum", "eth_accounts", <<>>),
                   Call("ethereum", "eth_withdraw",
                        <<JAddress(HexAddress(1)), JU256(ToSat(amount)),
                          JU256(ToSat(f))>>)>>,
                 "ok", [msg |-> "created withdrawal", amount |-> amount, fee |-> f])

\* ---- Commands::Refund
UnsupportedRefund ==
    "ATTENTION: Automatic refunds are not supported for ethereum, use geth-console to make a refund"

\* RefundPlan without the ethereum arm: every sidechain gets the zcash call.
RefundPlan_NoEthereumArm(sidechain, amount, fee) ==
    LET f == UnwrapOr(fee, DefaultFee)
    IN Plan(<<Call("zcash", "refund", <<JAmountBtc(amount), JAmountBtc(f)>>)>>,
            "ok", [msg |-> "refunded", amount |-> amount, fee |-> f])

RefundPlan(sidechain, amount, fee) ==
    LET f == UnwrapOr(fee, DefaultFee)
    IN IF sidechain = "zcash"
       THEN Plan(<<Call("zcash", "refund", <<JAmountBtc(amount), JAmountBtc(f)>>)>>,
                 "ok", [msg |-> "refunded", amount |-> amount, fee |-> f])
       ELSE Plan(<<>>, "ok", [msg |-> UnsupportedRefund])

\* The handler runs: each request may fail, and send_request(..)? then ends
\* the invocation with the error.  failed is the request that failed, 0 when
\* every request was answered.
Finish(cmd, args, plan) ==
    /\ \E failed \in 0..Len(plan.calls) :
          IF failed = 0
          THEN /\ calls' = plan.calls
               /\ cli' = [state |-> "done", cmd |-> cmd, args |-> args,
                          failed |-> 0,
                          exit |-> plan.exit, out |-> plan.out]
          ELSE /\ calls' = SubSeq(plan.calls, 1, failed)
               /\ cli' = [state |-> "done", cmd |-> cmd, args |-> args,
                          failed |-> failed,
                          exit |-> "err", out |-> [msg |-> "rpc error"]]
    /\ UNCHANGED <<eth, supVars, amt>>

Generate ==
    /\ cli.state = "idle"
    /\ \E number \in BlockNumbers, amount \in OptAmounts :
          Finish("generate", [number |-> number, amount |-> amount],
                 GeneratePlan(number, amount))

Zcash ==
    /\ cli.state = "idle"
    /\ \E method \in Methods, params \in OptParams :
          Finish("zcash", [method |-> method, params |-> params],
                 RawPlan("zcash", method, params))

Main ==
    /\ cli.state = "idle"
    /\ \E method \in Methods, params \in OptParams :
          Finish("main", [method |-> method, params |-> params],
                 RawPlan("main", method, params))

\* Commands::GethConsole: geth attach is spawned and waited for; no request
\* is sent from here.
GethConsole ==
    /\ cli.state = "idle"
    /\ \E exit \in {"ok", "err"} :
          Finish("geth-console", [none |-> TRUE],
                 Plan(<<>>, exit, [msg |-> "geth attach"]))

Getbalances ==
    /\ cli.state = "idle"
    /\ \E main \in ChainBalances, zcash \in ChainBalances :
          Finish("getbalances", [none |-> TRUE], GetbalancesPlan(main, zcash))

Getblockcounts ==
    /\ cli.state = "idle"
    /\ Finish("getblockcounts", [none |-> TRUE], GetblockcountsPlan)

Deposit ==
    /\ cli.state = "idle"
    /\ \E sidechain \in Sidechain, amount \in Amounts, fee \in OptAmounts :
          Finish("deposit",
                 [sidechain |-> sidechain, amount |-> amount, fee |-> fee],
                 DepositPlan(sidechain, amount, fee))

Withdraw ==
    /\ cli.state = "idle"
    /\ \E sidechain \in Sidechain, amount \in Amounts, fee \in OptAmounts :
          Finish("withdraw",
                 [sidechain |-> sidechain, amount |-> amount, fee |-> fee],
                 WithdrawPlan(sidechain, amount, fee))

Refund ==
    /\ cli.state = "idle"
    /\ \E sidechain \in Sidechain, amount \in Amounts, fee \in OptAmounts :
          Finish("refund",
                 [sidechain |-> sidechain, amount |-> amount, fee |-> fee],
                 RefundPlan(sidechain, amount, fee))

\* The command line client is run again.
NextInvocation ==
    /\ cli.state = "done"
    /\ cli' = [state |-> "idle"]
    /\ calls' = <<>>
    /\ UNCHANGED <<eth, supVars, amt>>

CliInit ==
    /\ SupInit /\ regtest /\ paramsExist
    /\ cli = [state |-> "idle"]
    /\ calls = <<>>
    /\ eth \in EthStates
    /\ AmtIdle

CliNext ==
    \/ Generate
    \/ Zcash
    \/ Main
    \/ GethConsole
    \/ Getbalances
    \/ Getblockcounts
    \/ Deposit
    \/ Withdraw
    \/ Refund
    \/ NextInvocation

CliSpec == CliInit /\ [][CliNext]_vars

(***************************************************************************)
(*              Properties of the command line client (CliSpec)            *)
(***************************************************************************)
Done(cmd) == cli.state = "done" /\ cli.cmd = cmd

\* The amount a chain reads from a parameter sent as AmountBtc.
AmountOf(j) == ParseAmount(j.v)

Carries(j, a) == j.t = "amount_btc" /\ AmountOf(j) = Ok(ToSat(a))

FeeOf(args) == UnwrapOr(args.fee, DefaultFee)

\* C5: refund on ethereum sends no request to any chain and ends without an
\* error, printing the not-supported notice; refund on zcash sends exactly
\* one request, refund(amount, fee).
C5_Refund ==
    Done("refund") =>
       IF cli.args.sidechain = "ethereum"
       THEN /\ calls = <<>>
            /\ cli.exit = "ok"
            /\ cli.out.msg = UnsupportedRefund
       ELSE /\ Len(calls) = 1
            /\ calls[1].chain = "zcash" /\ calls[1].method = "refund"
            /\ Len(calls[1].params) = 2
            /\ Carries(calls[1].params[1], cli.args.amount)
            /\ Carries(calls[1].params[2], FeeOf(cli.args))
            /\ cli.out.msg # UnsupportedRefund

C5_Witness ==
    /\ Done("refund") /\ cli.args.sidechain = "ethereum"
    /\ cli.args.fee.some /\ calls = <<>> /\ cli.exit = "ok"

\* C6: withdraw sends amount and fee as two parameters in that order, the
\* amount unchanged by the fee: [amount, fee] to zcash, and to ethereum
\* [account, amount in satoshi, fee in satoshi].
C6_Withdraw ==
    Done("withdraw") =>
       IF cli.args.sidechain = "zcash"
       THEN /\ Len(calls) = 1
            /\ calls[1].chain = "zcash" /\ calls[1].method = "withdraw"
            /\ Len(calls[1].params) = 2
            /\ Carries(calls[1].params[1], cli.args.amount)
            /\ Carries(calls[1].params[2], FeeOf(cli.args))
       ELSE /\ cli.exit = "ok" =>
                 Len(calls) = 2 /\ calls[2].method = "eth_withdraw"
            /\ \A i \in 1..Len(calls) :
                  calls[i].method = "eth_withdraw" =>
                     /\ calls[i].chain = "ethereum"
                     /\ calls[i].params =
                           <<JAddress(HexAddress(1)),
                             JU256(ToSat(cli.args.amount)),
                             JU256(ToSat(FeeOf(cli.args)))>>

\* A withdrawal from ethereum went out with a fee larger than the amount.
C6_Witness ==
    /\ Done("withdraw") /\ cli.args.sidechain = "ethereum" /\ cli.exit = "ok"
    /\ cli.args.fee.some
    /\ Less(ToSat(cli.args.amount), ToSat(cli.args.fee.v))
    /\ calls[2].params[2] = JU256(ToSat(cli.args.amount))

\* The slot index the protocol gives each sidechain.
SlotOf(sidechain) == IF sidechain = "zcash" THEN 0 ELSE 1

\* C7: every createsidechaindeposit request goes to main with the parameters
\* (slot index, encoded address, amount, fee), the slot index being 0 for
\* zcash and 1 for ethereum and the same in the encoded address.
C7_Deposit ==
    Done("deposit") =>
       /\ cli.exit = "ok" =>
             calls # <<>> /\ calls[Len(calls)].method = "createsidechaindeposit"
       /\ \A i \in 1..Len(calls) :
             calls[i].method = "createsidechaindeposit" =>
                LET p == calls[i].params
                IN /\ calls[i].chain = "main"
                   /\ Len(p) = 4
                   /\ p[1] = JNum(SlotOf(cli.args.sidechain))
                   /\ p[2].t = "deposit_address"
                   /\ p[2].v.slot = p[1].v
                   /\ Carries(p[3], cli.args.amount)
                   /\ Carries(p[4], FeeOf(cli.args))

C7_Witness ==
    /\ Done("deposit") /\ cli.args.sidechain = "ethereum" /\ cli.exit = "ok"
    /\ calls[2].params[1] = JNum(1)
    /\ calls[2].params[2].v.slot = 1

TenZeros == Zeros(WeiPerSatDigits)

\* q = floor(total / 10^10)
IsFloorOfTenth(q, total) ==
    /\ Leq(Norm(q \o TenZeros), total)
    /\ Less(total, Norm(Add(q, <<1>>) \o TenZeros))

\* C8: the ethereum balance getbalances reports is the floor of the sum of
\* the balances of all accounts over 10^10: 0 for no account, 1,000 for
\* balances of 3*10^12 and 7*10^12.  The only runs in which every request
\* is answered and nothing is reported are those in which that number does
\* not fit the types.
C8_Balances ==
    Done("getbalances") =>
       LET total == SumTo(eth, Len(eth))
       IN /\ cli.exit = "ok" =>
                /\ IsFloorOfTenth(ToSat(cli.out.ethereum), total)
                /\ Leq(ToSat(cli.out.ethereum), U64Max)
                /\ eth = <<>> => ToSat(cli.out.ethereum) = <<0>>
                /\ eth = <<<<3, 0, 0, 0, 0, 0, 0, 0, 0, 0, 0, 0, 0>>,
                           <<7, 0, 0, 0, 0, 0, 0, 0, 0, 0, 0, 0, 0>>>> =>
                      ToSat(cli.out.ethereum) = <<1, 0, 0, 0>>
          /\ cli.exit = "panic" =>
                Less(U64Max, DivPow10(total, WeiPerSatDigits))

\* Two accounts of 0.6 satoshi each: one satoshi is reported.
C8_Witness ==
    /\ Done("getbalances") /\ cli.exit = "ok"
    /\ eth = <<<<6, 0, 0, 0, 0, 0, 0, 0, 0, 0>>, <<6, 0, 0, 0, 0, 0, 0, 0, 0, 0>>>>
    /\ ToSat(cli.out.ethereum) = <<1>>

JBool(b) == [t |-> "bool", v |-> b]
JNull == [t |-> "null", v |-> "null"]

\* The JSON scalar a string parses as, and the string itself otherwise.
Coerce(str) ==
    CASE str = "1" -> JNum(1)
      [] str = "true" -> JBool(TRUE)
      [] str = "null" -> JNull
      [] OTHER -> JStr(str)

\* Two parameter lists are the same JSON: as long, and at each position the
\* same kind of value with the same content.
SameParams(ps, qs) ==
    /\ Len(ps) = Len(qs)
    /\ \A i \in 1..Len(ps) : ps[i].t = qs[i].t /\ ps[i].v = qs[i].v

\* C9: the zcash and main commands forward their n string parameters as n
\* positional parameters in the same order, each as the JSON scalar it
\* parses as or else as a string, and forward no parameter when given none.
C9_RawPassThrough ==
    (cli.state = "done" /\ cli.cmd \in {"zcash", "main"}) =>
       /\ Len(calls) = 1
       /\ calls[1].chain = cli.cmd
       /\ calls[1].method = cli.args.method
       /\ SameParams(calls[1].params,
                     IF cli.args.params.some
                     THEN [i \in 1..Len(cli.args.params.v) |->
                             Coerce(cli.args.params.v[i])]
                     ELSE <<>>)

NoAddress == "No available Ethereum addresses"

\* The requests that change something on a chain.
Effects == {"generate", "createsidechaindeposit", "withdraw", "eth_withdraw",
            "refund"}

\* The requests that look an address up.
Lookups == {"getnewaddress", "eth_accounts"}

CountCalls(methods) ==
    Cardinality({i \in 1..Len(calls) : calls[i].method \in methods})

\* C16: with no account on the ethereum node, deposit to and withdraw from
\* ethereum end with an error, the no-address error when the account list
\* was answered, having sent nothing but the request for the accounts; with
\* accounts, the address deposited to or withdrawn from is the first
\* account's, 0x-prefixed.
C16_NoAddress ==
    (cli.state = "done" /\ cli.cmd \in {"deposit", "withdraw"}
        /\ cli.args.sidechain = "ethereum") =>
       /\ calls # <<>> /\ calls[1] = Call("ethereum", "eth_accounts", <<>>)
       /\ eth = <<>> =>
             /\ cli.exit = "err"
             /\ Len(calls) = 1
             /\ CountCalls({"createsidechaindeposit", "eth_withdraw"}) = 0
             /\ cli.failed = 0 => cli.out.msg = NoAddress
       /\ eth # <<>> =>
             /\ cli.out.msg # NoAddress
             /\ cli.failed = 0 => cli.exit = "ok" /\ Len(calls) = 2
             /\ \A i \in 1..Len(calls) :
                   /\ calls[i].method = "createsidechaindeposit" =>
                         calls[i].params[2].v.address = HexAddress(1)
                   /\ calls[i].method = "eth_withdraw" =>
                         calls[i].params[1] = JAddress(HexAddress(1))

\* A deposit to ethereum on a node without accounts.
C16_Witness ==
    /\ Done("deposit") /\ cli.args.sidechain = "ethereum" /\ eth = <<>>
    /\ cli.failed = 0 /\ cli.exit = "err" /\ cli.out.msg = NoAddress
    /\ Len(calls) = 1

OneTrip == {"generate", "deposit", "withdraw", "refund", "zcash", "main"}

BalanceTrips == CountCalls({"eth_getBalance"})

\* C17 as stated: an invocation of generate, deposit, withdraw, refund, zcash
\* or main in which every request was answered has sent exactly one request;
\* getbalances has sent one balance request per ethereum account.
C17_OneRoundTrip ==
    /\ (cli.state = "done" /\ cli.cmd \in OneTrip /\ cli.failed = 0) =>
          Len(calls) = 1
    /\ (Done("getbalances") /\ cli.exit = "ok") => BalanceTrips = Len(eth)

\* C17, amended: such an invocation sends at most one request that changes
\* a chain, as its last request, and exactly one when it ends well, a refund
\* on ethereum apart; what comes before is at most one address lookup.
\* getbalances that reports sent one getbalance to main, one to zcash,
\* one eth_accounts and one eth_getBalance per account, each account once.
C17_OneEffect ==
    /\ (cli.state = "done" /\ cli.cmd \in OneTrip) =>
          LET effects == IF cli.cmd \in {"zcash", "main"}
                         THEN {cli.args.method} ELSE Effects
              n == Len(calls)
          IN /\ CountCalls(effects) <= 1
             /\ CountCalls(effects) = 1 => calls[n].method \in effects
             /\ n <= 2
             /\ n = 2 => calls[1].method \in Lookups
             /\ cli.cmd \in {"generate", "zcash", "main"} => n = 1
             /\ cli.exit = "ok" =>
                   IF cli.cmd = "refund" /\ cli.args.sidechain = "ethereum"
                   THEN n = 0
                   ELSE CountCalls(effects) = 1
             /\ cli.failed = 0 =>
                   n = CASE cli.cmd = "deposit" ->
                               IF cli.args.sidechain = "ethereum" /\ eth = <<>>
                               THEN 1 ELSE 2
                          [] cli.cmd = "withdraw" ->
                               IF cli.args.sidechain = "zcash" THEN 1
                               ELSE IF eth = <<>> THEN 1 ELSE 2
                          [] cli.cmd = "refund" ->
                               IF cli.args.sidechain = "zcash" THEN 1 ELSE 0
                          [] OTHER -> 1
    /\ (Done("getbalances") /\ cli.exit = "ok") =>
          /\ BalanceTrips = Len(eth)
          /\ Len(calls) = 3 + Len(eth)
          /\ \A i \in 1..Len(eth) :
                calls[3 + i] =
                   Call("ethereum", "eth_getBalance", <<JAddress(HexAddress(i))>>)

\* getbalances reported on a node with more than one account.
C17_Witness ==
    /\ Done("getbalances") /\ cli.exit = "ok"
    /\ Len(eth) > 1 /\ BalanceTrips = Len(eth)

Fee == {"generate", "deposit", "withdraw", "refund"}

\* 10,000 satoshi, and the same as the decimal of bitcoin a node is sent.
TenThousandSat == <<1, 0, 0, 0, 0>>
TenThousandSatBtc == <<"0", ".", "0", "0", "0", "1">>

\* The optional amount of generate, the optional fee of the others.
Optional(cmd, args) == IF cmd = "generate" THEN args.amount ELSE args.fee

\* C18: generate, deposit, withdraw and refund send, as the last parameter
\* of their request to the chain, the value given on the command line, and
\* 0.0001 bitcoin (10,000 satoshi) when none was given.
C18_DefaultFee ==
    (cli.state = "done" /\ cli.cmd \in Fee) =>
       LET opt == Optional(cli.cmd, cli.args)
           sat == IF opt.some THEN ToSat(opt.v) ELSE TenThousandSat
       IN /\ (cli.exit = "ok"
                 /\ ~(cli.cmd = "refund" /\ cli.args.sidechain = "ethereum")) =>
                CountCalls(Effects) = 1
          /\ \A i \in 1..Len(calls) :
                calls[i].method \in Effects =>
                   LET p == calls[i].params[Len(calls[i].params)]
                   IN IF p.t = "u256"
                      THEN p.v = sat
                      ELSE /\ p.t = "amount_btc"
                           /\ AmountOf(p) = Ok(sat)
                           /\ ~opt.some => p.v = TenThousandSatBtc

\* generate without an amount.
C18_Witness ==
    /\ Done("generate") /\ ~cli.args.amount.some /\ cli.exit = "ok"
    /\ calls[1].params[2] = [t |-> "amount_btc", v |-> TenThousandSatBtc]

=============================================================================
